---- MODULE Spec2Model ----
(***************************************************************************)
(* Model of src/app.py: the Flask service that creates, lists and deletes  *)
(* Jupyter containers through the Docker engine.                           *)
(*                                                                         *)
(* Flask serves every request on its own handler thread, and app.py takes  *)
(* no lock, so a handler is split at each call that reads or writes state  *)
(* shared with other threads: the engine (the client.containers calls) and *)
(* the host's TCP ports (socket bind and close).  The engine is modelled    *)
(* by what it answers: names are unique among existing containers, a       *)
(* running container holds its host port, stop and remove may fail.        *)
(***************************************************************************)
EXTENDS Integers, FiniteSets, Sequences, TLC

\* ---------------------------------------------------------------- bounds
NumThreads == 2      \* concurrent handler threads
NumNames == 2        \* distinct values generate_random_string can return
PortSpan == 0        \* JUPYTER_PORT_END - JUPYTER_PORT_START
MaxRequests == 3     \* requests served in one behaviour

\* ------------------------------------------------------- configuration
JUPYTER_PORT_START == 9000
JUPYTER_PORT_END == JUPYTER_PORT_START + PortSpan
Retries == 5

Threads == 1..NumThreads
Names == 1..NumNames
Ids == 1..MaxRequests
Ports == JUPYTER_PORT_START..JUPYTER_PORT_END

NoHeader == "None"
ApiKeys == {"", "key"}
Headers == {NoHeader, "", "key", "bad"}

\* ------------------------------------------------------------ responses
Resp(code, error) == [code |-> code, error |-> error]
NoResp == Resp(0, "")
Unauthorized == Resp(401, "Unauthorized")
Created == Resp(201, "")
Ok == Resp(200, "")
DockerApiError == Resp(500, "Docker API error.")
AllocError == Resp(500, "No available ports found within the specified range after multiple attempts.")
Unexpected == Resp(500, "An unexpected error occurred.")
NotFound == Resp(404, "Container not found.")

VARIABLES
    API_KEY,     \* the configured key, read once at start
    containers,  \* the engine: id -> [name, status, port]
    nextId,      \* the id the engine gives the next container
    nreq,        \* requests received so far
    thread,      \* handler thread -> its request and locals
    ghost,       \* handler thread -> history of its request
    gone         \* names deleted with success and not created again since

vars == <<API_KEY, containers, nextId, nreq, thread, ghost, gone>>

\* ext records that the container was stopped outside the service
NoContainer == [name |-> 0, status |-> "none", port |-> 0, ext |-> FALSE]
Removed == [name |-> 0, status |-> "removed", port |-> 0, ext |-> FALSE]

Idle == [pc |-> "idle", kind |-> "", key |-> NoHeader, container_name |-> 0,
         port |-> 0, probes |-> 0, sock |-> "closed", container |-> 0,
         resp |-> NoResp, name |-> 0, notebooks |-> {}]

NoGhost == [calls |-> {}, failed |-> 0, probeHeld |-> FALSE, returnHeld |-> FALSE, sawFree |-> FALSE,
            known |-> FALSE, listGone |-> {}, listStale |-> {}, listMid |-> {}]

\* ---------------------------------------------------------- the engine
Exists(i) == containers[i].status \in {"created", "running", "exited"}

Running(i) == containers[i].status = "running"

\* a container the engine finds under this name, 0 when there is none
Lookup(n) == IF \E i \in Ids : Exists(i) /\ containers[i].name = n
             THEN CHOOSE i \in Ids : Exists(i) /\ containers[i].name = n
             ELSE 0

\* the port is held by a running container's published port
HeldByContainer(p) == \E i \in Ids : Running(i) /\ containers[i].port = p

\* the port is held by the bound probe socket of some handler thread
HeldBySocket(p) == \E t \in Threads : thread[t].sock = "bound" /\ thread[t].port = p

PortInUse(p) == HeldByContainer(p) \/ HeldBySocket(p)

AllPortsInUse == \A p \in Ports : PortInUse(p)

\* ------------------------------------------------------ require_api_key
\* Python's truth of the header value: None and '' are false
Truthy(key) == key # NoHeader /\ key # ""
AuthorizedByEquality(key) == key = API_KEY

\* the decorator's test: `if key and key == API_KEY`
Authorized(key) == Truthy(key) /\ key = API_KEY

Entry(kind) == CASE kind = "create" -> "probe"
                 [] kind = "list" -> "list"
                 [] kind = "delete" -> "get"

\* A response stays on record until the next one is sent: a thread that
\* reaches "done" clears the slots of the threads that were done before it.
\* Step gives thread t its next locals r and the history g of its request.
Step(t, r, g) ==
    /\ thread' = [u \in Threads |->
                    IF u = t THEN r
                    ELSE IF r.pc = "done" /\ thread[u].pc = "done" THEN Idle
                    ELSE thread[u]]
    /\ ghost' = [u \in Threads |->
                    IF u = t THEN g
                    ELSE IF r.pc = "done" /\ thread[u].pc = "done" THEN NoGhost
                    ELSE ghost[u]]

\* a thread that serves no request: it never has, or it has sent its response
Free(t) == thread[t].pc \in {"idle", "done"}

\* A request gets a handler thread and passes through decorated().  Flask
\* starts a thread for each request; which free slot stands for it makes no
\* difference, so the lowest is taken.  generate_random_string touches no
\* shared state; its draw is made where the name is first used, in Run.
Request(t) ==
    /\ Free(t)
    /\ \A u \in Threads : u < t => ~Free(u)
    /\ nreq < MaxRequests
    /\ nreq' = nreq + 1
    /\ \E kind \in {"create", "list", "delete"}, key \in Headers, n \in Names :
          /\ kind # "delete" => n = 1
          /\ LET r == [Idle EXCEPT !.kind = kind, !.key = key,
                                   !.container_name = IF kind = "delete" THEN n ELSE 0]
             IN IF Authorized(key)
                THEN Step(t, [r EXCEPT !.pc = Entry(kind)], NoGhost)
                ELSE Step(t, [r EXCEPT !.pc = "done", !.resp = Unauthorized], NoGhost)
    /\ UNCHANGED <<API_KEY, containers, nextId, gone>>

\* ------------------------------------------------- find_available_port
BindNeverRaises(p) == TRUE

\* s.bind((HOST_IP, port)) raises OSError when the port is in use
BindSucceeds(p) == ~PortInUse(p)

LoopOverLate(n) == n > Retries

\* `for _ in range(retries)` is over after `retries` probes
LoopOver(n) == n >= Retries

PortsExhaustedAsApiError == DockerApiError

\* the RuntimeError of find_available_port as create_notebook answers it
PortsExhausted == AllocError

\* one iteration of the loop: draw a port, open a socket, try to bind it.
\* A socket whose bind failed holds no port, and the `with` block closes it
\* before the next iteration or the raise; a bound socket holds its port
\* until ProbeClose.
ProbeBind(t) ==
    /\ thread[t].pc = "probe"
    /\ \E p \in Ports :
          LET r == [thread[t] EXCEPT !.probes = thread[t].probes + 1]
              g == [ghost[t] EXCEPT !.sawFree = ghost[t].sawFree \/ ~AllPortsInUse]
          IN IF BindSucceeds(p)
             THEN Step(t, [r EXCEPT !.pc = "close", !.port = p, !.sock = "bound"],
                          [g EXCEPT !.probeHeld = HeldByContainer(p), !.sawFree = TRUE])
             ELSE IF LoopOver(r.probes)
             THEN Step(t, [r EXCEPT !.pc = "done", !.resp = PortsExhausted],
                          [g EXCEPT !.failed = ghost[t].failed + 1])
             ELSE Step(t, r, [g EXCEPT !.failed = ghost[t].failed + 1])
    /\ UNCHANGED <<API_KEY, containers, nextId, nreq, gone>>

\* `return port` out of the `with` block: the socket is closed, the port is
\* free again, and the caller has it
ProbeClose(t) ==
    /\ thread[t].pc = "close"
    /\ Step(t, [thread[t] EXCEPT !.pc = "run", !.sock = "closed", !.probes = 0],
               [ghost[t] EXCEPT !.failed = 0,
                                !.returnHeld = HeldByContainer(thread[t].port)])
    /\ UNCHANGED <<API_KEY, containers, nextId, nreq, gone>>

\* ------------------------------------------------------ create_notebook
\* client.containers.run(..., name, ports={'8888/tcp': port}, detach=True):
\* the engine creates the container unless the name is taken, then starts it,
\* which binds the host port; a failed start leaves the container created.
Run(t) ==
    /\ thread[t].pc = "run"
    /\ \E n \in Names, up \in BOOLEAN :
          LET g == [ghost[t] EXCEPT !.calls = ghost[t].calls \cup {"run"}]
              fresh == [name |-> n, status |-> "created", port |-> 0, ext |-> FALSE]
          IN IF ~up \/ Lookup(n) # 0
             THEN /\ Step(t, [thread[t] EXCEPT !.pc = "done", !.resp = DockerApiError], g)
                  /\ UNCHANGED <<containers, nextId, gone>>
             ELSE /\ nextId' = nextId + 1
                  /\ gone' = gone \ {n}
                  /\ IF PortInUse(thread[t].port)
                     THEN /\ containers' = [containers EXCEPT ![nextId] = fresh]
                          /\ Step(t, [thread[t] EXCEPT !.pc = "done",
                                                       !.resp = DockerApiError], g)
                     ELSE /\ containers' = [containers EXCEPT ![nextId] =
                                              [fresh EXCEPT !.status = "running",
                                                            !.port = thread[t].port]]
                          /\ Step(t, [thread[t] EXCEPT !.pc = "done", !.resp = Created,
                                                       !.name = n], g)
    /\ UNCHANGED <<API_KEY, nreq>>

\* ------------------------------------------------------- list_notebooks
\* client.containers.list(all=True, filters=...): every container the
\* service started carries both labels, whatever its status
Listed(i) == Exists(i)

\* one entry of notebook_list; NetworkSettings.Ports has a host port only
\* while the container runs
Notebook(i) == [name |-> containers[i].name, status |-> containers[i].status,
                port |-> containers[i].port]

\* a delete_notebook on another thread has stopped i and not yet removed it
MidDelete(i) == \E u \in Threads : /\ thread[u].kind = "delete"
                                   /\ thread[u].pc = "remove"
                                   /\ thread[u].container = i

\* the listing is one answer of the engine; the response is built from it
List(t) ==
    /\ thread[t].pc = "list"
    /\ LET listed == {i \in Ids : Listed(i)} IN
       Step(t, [thread[t] EXCEPT !.pc = "done", !.resp = Ok,
                                 !.notebooks = {Notebook(i) : i \in listed}],
               [ghost[t] EXCEPT
                  !.calls = {"list"},
                  !.listGone = {containers[i].name : i \in listed} \cap gone,
                  !.listStale = {containers[i].name : i \in {j \in listed : containers[j].ext}},
                  !.listMid = {containers[i].name : i \in {j \in listed : MidDelete(j)}}])
    /\ UNCHANGED <<API_KEY, containers, nextId, nreq, gone>>

\* ------------------------------------------------------ delete_notebook
NotFoundAsUnexpected == Unexpected

\* `except docker.errors.NotFound` of delete_notebook
NotFoundAnswer == NotFound

\* client.containers.get(container_name)
Get(t) ==
    /\ thread[t].pc = "get"
    /\ LET i == Lookup(thread[t].container_name)
           g == [ghost[t] EXCEPT !.calls = {"get"}, !.known = (i # 0)]
       IN IF i = 0
          THEN Step(t, [thread[t] EXCEPT !.pc = "done", !.resp = NotFoundAnswer], g)
          ELSE Step(t, [thread[t] EXCEPT !.pc = "stop", !.container = i], g)
    /\ UNCHANGED <<API_KEY, containers, nextId, nreq, gone>>

\* what a stop leaves of a container: a running one exits and frees its port
Stopped(c) == IF c.status = "running" THEN [c EXCEPT !.status = "exited", !.port = 0] ELSE c

\* container.stop(), addressed by id
Stop(t) ==
    /\ thread[t].pc = "stop"
    /\ \E up \in BOOLEAN :
          LET i == thread[t].container
              g == [ghost[t] EXCEPT !.calls = ghost[t].calls \cup {"stop"}]
          IN IF ~Exists(i)
             THEN /\ Step(t, [thread[t] EXCEPT !.pc = "done", !.resp = NotFoundAnswer], g)
                  /\ UNCHANGED containers
             ELSE IF ~up
             THEN /\ Step(t, [thread[t] EXCEPT !.pc = "done", !.resp = DockerApiError], g)
                  /\ UNCHANGED containers
             ELSE /\ Step(t, [thread[t] EXCEPT !.pc = "remove"], g)
                  /\ containers' = [containers EXCEPT ![i] = Stopped(containers[i])]
    /\ UNCHANGED <<API_KEY, nextId, nreq, gone>>

WithoutRemove(i) == containers

\* what the engine holds after a remove of container i
Without(i) == [containers EXCEPT ![i] = Removed]

\* container.remove(), addressed by id; the engine refuses a running container
Remove(t) ==
    /\ thread[t].pc = "remove"
    /\ \E up \in BOOLEAN :
          LET i == thread[t].container
              g == [ghost[t] EXCEPT !.calls = ghost[t].calls \cup {"remove"}]
          IN IF ~Exists(i)
             THEN /\ Step(t, [thread[t] EXCEPT !.pc = "done", !.resp = NotFoundAnswer], g)
                  /\ UNCHANGED <<containers, gone>>
             ELSE IF ~up \/ Running(i)
             THEN /\ Step(t, [thread[t] EXCEPT !.pc = "done", !.resp = DockerApiError], g)
                  /\ UNCHANGED <<containers, gone>>
             ELSE /\ Step(t, [thread[t] EXCEPT !.pc = "done", !.resp = Ok], g)
                  /\ containers' = Without(i)
                  /\ gone' = gone \cup {containers[i].name}
    /\ UNCHANGED <<API_KEY, nextId, nreq>>

\* a managed container is stopped at the engine, behind the service's back
ExternalStop(i) ==
    /\ Running(i)
    /\ containers' = [containers EXCEPT ![i] = [Stopped(containers[i]) EXCEPT !.ext = TRUE]]
    /\ UNCHANGED <<API_KEY, nextId, nreq, thread, ghost, gone>>

Init ==
    /\ API_KEY \in ApiKeys
    /\ containers = [i \in Ids |-> NoContainer]
    /\ nextId = 1
    /\ nreq = 0
    /\ thread = [t \in Threads |-> Idle]
    /\ ghost = [t \in Threads |-> NoGhost]
    /\ gone = {}

Next ==
    \/ \E t \in Threads : Request(t)
    \/ \E t \in Threads : ProbeBind(t)
    \/ \E t \in Threads : ProbeClose(t)
    \/ \E t \in Threads : Run(t)
    \/ \E t \in Threads : List(t)
    \/ \E t \in Threads : Get(t)
    \/ \E t \in Threads : Stop(t)
    \/ \E t \in Threads : Remove(t)
    \/ \E i \in Ids : ExternalStop(i)

Spec == Init /\ [][Next]_vars

\* ================================================================ claims
Handled(t, kind) == /\ thread[t].pc = "done"
                    /\ thread[t].kind = kind
                    /\ thread[t].resp # Unauthorized

\* C1: a create_notebook that answers 201 returns a port within
\* [JUPYTER_PORT_START, JUPYTER_PORT_END] that no running container held at
\* the instant find_available_port bound its probe socket to it.
C1_PortInRangeAndUnheld ==
    \A t \in Threads :
        Handled(t, "create") /\ thread[t].resp = Created
        => /\ JUPYTER_PORT_START <= thread[t].port
           /\ thread[t].port <= JUPYTER_PORT_END
           /\ ~ghost[t].probeHeld

\* C1 witness: a 201 that follows an earlier create and delete, which had
\* held and then freed a port of the range
C1_Witness ==
    \E t \in Threads :
        /\ Handled(t, "create") /\ thread[t].resp = Created
        /\ \E i \in Ids : containers[i].status = "removed"

\* C2: find_available_port makes at most Retries probes, each of a port of the
\* range; it returns the port of the first probe that binds, without a further
\* probe; it raises (the create answers the allocator's error) exactly when
\* Retries probes have failed; and the probe socket is closed once it has
\* returned or raised.
C2_BoundedProbes ==
    \A t \in Threads :
        thread[t].kind = "create" /\ thread[t].resp # Unauthorized
        => /\ thread[t].probes <= Retries
           /\ ghost[t].failed <= Retries
           /\ thread[t].pc = "probe"
                => /\ thread[t].probes < Retries
                   /\ ghost[t].failed = thread[t].probes
                   /\ thread[t].sock = "closed"
           /\ thread[t].pc = "close"
                => /\ thread[t].port \in Ports
                   /\ thread[t].sock = "bound"
                   /\ ghost[t].failed = thread[t].probes - 1
           /\ thread[t].pc = "run"
                => /\ thread[t].port \in Ports
                   /\ thread[t].sock = "closed"
           /\ thread[t].pc = "done"
                => /\ thread[t].sock = "closed"
                   /\ thread[t].resp = AllocError
                        <=> (ghost[t].failed = Retries /\ thread[t].probes = Retries)

\* C2 witness: a probe that binds after earlier probes of the call failed
C2_Witness ==
    \E t \in Threads :
        /\ thread[t].pc = "close"
        /\ ghost[t].failed >= 1
        /\ thread[t].probes = ghost[t].failed + 1

\* C3: a create_notebook that found every port of the range in use at each of
\* its probes answers 500 with the allocator's message and has not called
\* client.containers.run, so it has added no container.
C3_ExhaustedRange ==
    \A t \in Threads :
        /\ Handled(t, "create") /\ ~ghost[t].sawFree
             => /\ thread[t].resp = AllocError
                /\ thread[t].resp.code = 500
                /\ ghost[t].calls = {}
        /\ thread[t].pc = "run" => ghost[t].sawFree

\* C3 witness: the allocation error of a request that met a full range
C3_Witness ==
    \E t \in Threads :
        /\ Handled(t, "create") /\ ~ghost[t].sawFree
        /\ ghost[t].failed = Retries
        /\ AllPortsInUse

\* C4: once delete_notebook has returned for a container the engine knew,
\* that container is absent or not running, whatever stop and remove did.
C4_DeletedNotRunning ==
    \A t \in Threads :
        Handled(t, "delete") /\ ghost[t].known => ~Running(thread[t].container)

\* C5: delete_notebook of a name the engine does not know answers 404, and
\* has called neither stop nor remove, so it has changed no container.
C5_UnknownIsNotFound ==
    \A t \in Threads :
        Handled(t, "delete") /\ ~ghost[t].known
        => /\ thread[t].resp = NotFound
           /\ thread[t].resp.code = 404
           /\ ghost[t].calls = {"get"}

\* C5 witness: the 404 of a delete of a name that an earlier delete removed
C5_Witness ==
    \E t \in Threads :
        /\ Handled(t, "delete") /\ ~ghost[t].known
        /\ thread[t].container_name \in gone

\* C6: a list_notebooks response omits every name that a delete_notebook has
\* removed with success and that no create has given to a new container since.
C6_ListOmitsDeleted ==
    \A t \in Threads :
        Handled(t, "list") => /\ ghost[t].listGone = {}
                              /\ \A nb \in thread[t].notebooks : nb.name \notin gone

\* C6 witness: a list response given after a successful delete
C6_Witness ==
    \E t \in Threads : Handled(t, "list") /\ thread[t].resp = Ok /\ gone # {}

\* C7: a list_notebooks response does not include a container that was
\* stopped at the engine, outside the service, before the listing.
C7_ListOmitsStopped ==
    \A t \in Threads : Handled(t, "list") => ghost[t].listStale = {}

\* C8: find_available_port returns no port that a running container holds:
\* a port handed to the engine for a container is not returned to a create
\* while that container runs.
C8_NoHeldPortReturned ==
    \A t \in Threads :
        thread[t].kind = "create" /\ thread[t].pc \in {"run", "done"}
        => ~ghost[t].returnHeld

\* C8 witness: two concurrent creates were returned the same port, and the
\* container of one now runs on it while the other has yet to call the engine
C8_Witness ==
    \E t \in Threads, i \in Ids :
        /\ thread[t].pc = "run"
        /\ Running(i)
        /\ containers[i].port = thread[t].port

\* C9: no list_notebooks response shows a container that a concurrent
\* delete_notebook has stopped and not yet removed.
C9_ListSerialized ==
    \A t \in Threads : Handled(t, "list") => ghost[t].listMid = {}

\* C10: a request whose x-api-key header is absent, empty or different from
\* API_KEY is answered 401 without an engine call, and the handler runs only
\* for a header that is non-empty and equal to API_KEY.
C10_KeyRequired ==
    \A t \in Threads :
        thread[t].pc # "idle"
        => LET valid == /\ thread[t].key # NoHeader
                        /\ thread[t].key # ""
                        /\ thread[t].key = API_KEY
           IN /\ ~valid => /\ thread[t].pc = "done"
                           /\ thread[t].resp = Unauthorized
                           /\ thread[t].resp.code = 401
                           /\ ghost[t].calls = {}
              /\ valid => thread[t].resp # Unauthorized

\* C10 witness: an empty header is refused although API_KEY is empty as well
C10_Witness ==
    \E t \in Threads :
        /\ API_KEY = ""
        /\ thread[t].pc = "done"
        /\ thread[t].key = ""
        /\ thread[t].resp = Unauthorized

====
